---- MODULE Spec2Model ----
(***************************************************************************)
(* Arremate Certo backend: the three revisions of the Express server       *)
(* (src/index.js, src/unnamed/part_000, src/unnamed/part_001).  The        *)
(* variable rev says which one runs; where they agree the definitions      *)
(* follow part_000.  The liveness-only server that ends part_000 (GET /    *)
(* alone) and the text of the advisory prompt are left out, as are the     *)
(* record fields no route reads (cidade, bairro, logradouro, tipo,         *)
(* situacao, lat, lng).                                                    *)
(*                                                                         *)
(* A step is what a handler does between two awaits: JavaScript runs it    *)
(* to completion, and other requests and the clock move only in between.   *)
(*                                                                         *)
(* Strings are sequences of one-character strings.  A JavaScript value     *)
(* that may be undefined is a record [def, v].  A JavaScript number is a   *)
(* record [nan, m, e] standing for m / 10^e (NaN when nan), normalised so  *)
(* that equal numbers are equal records.                                   *)
(***************************************************************************)
EXTENDS Integers, Sequences, FiniteSets, TLC

\* ------------------------------------------------------------------
\* Bounds of the model
\* ------------------------------------------------------------------
MaxStrLen == 4
MaxRecs == 2
MaxRows == 1
MaxTicks == 2
MaxReq == 2

\* ------------------------------------------------------------------
\* JavaScript values
\* ------------------------------------------------------------------
Undefined == [def |-> FALSE, v |-> <<>>]
Str(s) == [def |-> TRUE, v |-> s]
\* !x for a string-or-undefined x: undefined and '' are falsy
Truthy(x) == x.def /\ x.v # <<>>
\* a || b
OrElse(a, b) == IF Truthy(a) THEN a ELSE b

NaN == [nan |-> TRUE, m |-> 0, e |-> 0]
RECURSIVE Norm(_, _)
Norm(m, e) == IF e > 0 /\ m % 10 = 0 THEN Norm(m \div 10, e - 1)
              ELSE [nan |-> FALSE, m |-> m, e |-> e]
Num(m) == [nan |-> FALSE, m |-> m, e |-> 0]
Zero == Num(0)
RECURSIVE Pow10(_)
Pow10(k) == IF k = 0 THEN 1 ELSE 10 * Pow10(k - 1)
\* a >= b and a <= b on numbers: every comparison with NaN is false
Geq(a, b) == ~a.nan /\ ~b.nan /\ a.m * Pow10(b.e) >= b.m * Pow10(a.e)
Leq(a, b) == ~a.nan /\ ~b.nan /\ a.m * Pow10(b.e) <= b.m * Pow10(a.e)

Digits == <<"0", "1", "2", "3", "4", "5", "6", "7", "8", "9">>
IsDigit(c) == \E i \in 1..10 : Digits[i] = c
DigitVal(c) == (CHOOSE i \in 1..10 : Digits[i] = c) - 1
AllDigits(s) == \A i \in 1..Len(s) : IsDigit(s[i])
RECURSIVE DigitsVal(_)
DigitsVal(s) == IF s = <<>> THEN 0
                ELSE 10 * DigitsVal(SubSeq(s, 1, Len(s) - 1)) + DigitVal(s[Len(s)])

\* ------------------------------------------------------------------
\* String primitives of the runtime
\* ------------------------------------------------------------------
\* String.prototype.trim
RECURSIVE Trim(_)
Trim(s) == IF s = <<>> THEN s
           ELSE IF s[1] = " " THEN Trim(Tail(s))
           ELSE IF s[Len(s)] = " " THEN Trim(SubSeq(s, 1, Len(s) - 1))
           ELSE s
\* s.replace(/[cs]/g, '')
RemoveAll(s, cs) == SelectSeq(s, LAMBDA c : c \notin cs)
IndexOf(s, c) == IF \E i \in 1..Len(s) : s[i] = c
                 THEN CHOOSE i \in 1..Len(s) : s[i] = c /\ \A j \in 1..(i - 1) : s[j] # c
                 ELSE 0
\* s.replace(c, r) with a string pattern: the first occurrence only
ReplaceFirst(s, c, r) == LET i == IndexOf(s, c)
                         IN IF i = 0 THEN s
                            ELSE SubSeq(s, 1, i - 1) \o r \o SubSeq(s, i + 1, Len(s))

LowerCase == <<"a", "e", "i", "l", "o", "p", "s", "v", "r", "j">>
UpperCase == <<"A", "E", "I", "L", "O", "P", "S", "V", "R", "J">>
UpperChar(c) == IF \E i \in 1..Len(LowerCase) : LowerCase[i] = c
                THEN UpperCase[CHOOSE i \in 1..Len(LowerCase) : LowerCase[i] = c]
                ELSE c
\* String.prototype.toUpperCase
toUpperCase(s) == [i \in 1..Len(s) |-> UpperChar(s[i])]
\* String.prototype.includes
includes(s, t) == \E i \in 0..(Len(s) - Len(t)) : SubSeq(s, i + 1, i + Len(t)) = t

\* Number(s) for a string: StringToNumber on the decimal literals
\* ([-] digits [. digits] | [-] . digits); '' and blanks give 0, anything
\* else NaN.
NumberJs(str) ==
    LET s == Trim(str)
        neg == s # <<>> /\ s[1] = "-"
        body == IF neg THEN Tail(s) ELSE s
        dot == IndexOf(body, ".")
        int == IF dot = 0 THEN body ELSE SubSeq(body, 1, dot - 1)
        frac == IF dot = 0 THEN <<>> ELSE SubSeq(body, dot + 1, Len(body))
        mag == DigitsVal(int \o frac)
    IN IF s = <<>> THEN Zero
       ELSE IF AllDigits(int) /\ AllDigits(frac) /\ Len(int) + Len(frac) > 0
            THEN Norm(IF neg THEN 0 - mag ELSE mag, Len(frac))
            ELSE NaN

\* ------------------------------------------------------------------
\* Helpers: parseNumeroBr (part_000, part_001)
\* ------------------------------------------------------------------
parseNumeroBr(valorStr) ==
    IF ~Truthy(valorStr) THEN Zero
    ELSE LET s1 == Trim(valorStr.v)
             s2 == RemoveAll(s1, {"R", "$", " "})
             s3 == ReplaceFirst(RemoveAll(s2, {"."}), ",", <<".">>)
             n == NumberJs(s3)
         IN IF n.nan THEN Zero ELSE n

\* index.js: Number((a || b || '0').replace('.', '').replace(',', '.'))
numeroInline(valorStr) ==
    NumberJs(ReplaceFirst(ReplaceFirst(OrElse(valorStr, Str(<<"0">>)).v, ".", <<>>),
                          ",", <<".">>))

\* ------------------------------------------------------------------
\* Program constants and inputs
\* ------------------------------------------------------------------
Revs == {"index", "part_000", "part_001"}
CACHE_MS == 10 * 60 * 1000
\* the clock advances in steps of half a cache window
TickMs == CACHE_MS \div 2

SP == <<"S", "P">>
sp == <<"s", "p">>
\* rows of the upstream CSV (header-as-keys objects of csv-parse), all under
\* the header UF;MODALIDADE;VALOR;VALOR_IMOVEL;AREA_TOTAL
Row1 == [UF |-> SP, MODALIDADE |-> <<"L", "e">>, VALOR |-> <<"1", ".", "2", "3", "4", ",", "5", "6">>,
         VALOR_IMOVEL |-> <<"1", ".", "2", "3", "4", ",", "5", "6">>, AREA_TOTAL |-> <<"5", "0">>]
Row2 == [UF |-> <<>>, MODALIDADE |-> <<"V", "E">>, VALOR |-> <<"R", "$", " ", "9", "0", "0">>,
         VALOR_IMOVEL |-> <<"R", "$", " ", "9", "0", "0">>, AREA_TOTAL |-> <<>>]
RowPool == {Row1, Row2}
SeqsUpTo(S, n) == UNION {[1..k -> S] : k \in 0..n}
\* what the upstream answers with status 2xx: a CSV text, of one row or
\* more, or one that csv-parse rejects
Csvs == {[ok |-> TRUE, rows |-> rs] : rs \in SeqsUpTo(RowPool, MaxRows) \ {<<>>}}
            \cup {[ok |-> FALSE, rows |-> <<>>]}
\* how axios.get rejects: err.response.status, or "" (no response: network, timeout)
FetchErrors == {"503", ""}

UfQuery == {Undefined, Str(SP), Str(sp)}
\* <<modalidade, minValor, maxValor>> of the query string
FiltroQuery == {<<Undefined, Undefined, Undefined>>,
                <<Str(<<"e">>), Str(<<"1", "0", "0", "0">>), Undefined>>}

\* row[col]
Col(row, col) == IF col \in DOMAIN row THEN Str(row[col]) ELSE Undefined

\* ------------------------------------------------------------------
\* parseImoveisCsv: [ok, data]; ok = FALSE when it throws
\* ------------------------------------------------------------------
ufDoImovel(row, uf) == OrElse(Col(row, "UF"), Str(uf))

modalidadeDoImovel(r, row) ==
    CASE r = "part_000" -> OrElse(Col(row, "MODALIDADE"), Str(<<>>))
      [] r = "part_001" -> OrElse(OrElse(Col(row, "MODALIDADE"), Col(row, "Modalidade")), Str(<<>>))
      [] r = "index" -> OrElse(Col(row, "MODALIDADE"), Col(row, "Modalidade"))

\* the number a revision makes of a raw cell (the first non-empty of the
\* candidate columns, or undefined): parseNumeroBr(cell || '') in part_000
\* and part_001, the inline Number(...) of index.js
celulaParaNumero(r, cell) ==
    IF r = "index" THEN numeroInline(cell) ELSE parseNumeroBr(OrElse(cell, Str(<<>>)))

valorDoImovel(r, row) ==
    celulaParaNumero(r,
        CASE r = "part_000" -> OrElse(Col(row, "VALOR"), Col(row, "VALOR_AVALIACAO"))
          [] r = "part_001" -> OrElse(OrElse(Col(row, "VALOR"), Col(row, "Valor")),
                                      Col(row, "VALOR_AVALIACAO"))
          [] r = "index" -> OrElse(Col(row, "VALOR_IMOVEL"), Col(row, "Valor")))

\* the column 'Area Total' of part_001 carries accents in the source
areaDoImovel(r, row) ==
    celulaParaNumero(r,
        CASE r = "part_000" -> OrElse(Col(row, "AREA_TOTAL"), Col(row, "AREA"))
          [] r = "part_001" -> OrElse(OrElse(Col(row, "AREA_TOTAL"), Col(row, "Area Total")),
                                      Col(row, "AREA"))
          [] r = "index" -> OrElse(Col(row, "AREA_TOTAL"), Col(row, "Area")))

\* index.js declares parseImoveisCsv(csvString) and reads `uf`, which is
\* bound nowhere: evaluating `row['UF'] || uf` throws a ReferenceError
\* as soon as a row has no UF value.
parseImoveisCsv(r, csv, uf) ==
    IF ~csv.ok THEN [ok |-> FALSE, data |-> <<>>]
    ELSE IF r = "index" /\ \E k \in 1..Len(csv.rows) : ~Truthy(Col(csv.rows[k], "UF"))
    THEN [ok |-> FALSE, data |-> <<>>]
    ELSE [ok |-> TRUE,
          data |-> [k \in 1..Len(csv.rows) |->
                      [id |-> k - 1,
                       bruto |-> csv.rows[k],
                       uf |-> ufDoImovel(csv.rows[k], uf),
                       modalidade |-> modalidadeDoImovel(r, csv.rows[k]),
                       valor |-> valorDoImovel(r, csv.rows[k]),
                       area |-> areaDoImovel(r, csv.rows[k])]]]

\* ------------------------------------------------------------------
\* Query filter of GET /api/imoveis
\* ------------------------------------------------------------------
passaModalidade(i, modalidade) ==
    includes(toUpperCase(OrElse(i.modalidade, Str(<<>>)).v), toUpperCase(modalidade.v))
\* the bound taken as exclusive
passaMinValorExclusivo(i, minValor) ==
    ~i.valor.nan /\ ~Leq(i.valor, NumberJs(minValor.v))
passaMinValor(i, minValor) == Geq(i.valor, NumberJs(minValor.v))
passaMaxValor(i, maxValor) == Leq(i.valor, NumberJs(maxValor.v))

Filtrar(imoveis, modalidade, minValor, maxValor) ==
    LET f1 == IF Truthy(modalidade)
              THEN SelectSeq(imoveis, LAMBDA i : passaModalidade(i, modalidade))
              ELSE imoveis
        f2 == IF Truthy(minValor)
              THEN SelectSeq(f1, LAMBDA i : passaMinValor(i, minValor))
              ELSE f1
        f3 == IF Truthy(maxValor)
              THEN SelectSeq(f2, LAMBDA i : passaMaxValor(i, maxValor))
              ELSE f2
    IN f3

\* ------------------------------------------------------------------
\* State
\* ------------------------------------------------------------------
VARIABLES
    rev,           \* which revision of the server runs
    now,           \* Date.now()
    cacheImoveis,  \* the Map: region key -> [data, timestamp]
    reqs,          \* the request each connection is handling, and its response
    numIn, numOut, \* a raw numeric cell and the number the normalizer makes of it
    fIn, fArgs, fOut  \* a record list, the query predicates, the filtered list

vars == <<rev, now, cacheImoveis, reqs, numIn, numOut, fIn, fArgs, fOut>>

Conns == 1..MaxReq
NoEntry == [has |-> FALSE, data |-> <<>>, timestamp |-> 0]
\* cacheImoveis.get(uf)
CacheGet(cache, uf) ==
    IF uf \in DOMAIN cache
    THEN [has |-> TRUE, data |-> cache[uf].data, timestamp |-> cache[uf].timestamp]
    ELSE NoEntry
\* cacheImoveis.set(uf, { data, timestamp })
CacheSet(cache, uf, data, ts) ==
    [k \in DOMAIN cache \cup {uf} |->
        IF k = uf THEN [data |-> data, timestamp |-> ts] ELSE cache[k]]
\* the window written in seconds
CacheFrescoSegundos(cached, t) == cached.has /\ t - cached.timestamp < 10 * 60
\* an entry exactly as old as the window still served
CacheFrescoInclusive(cached, t) == cached.has /\ t - cached.timestamp <= CACHE_MS
\* cached && now - cached.timestamp < CACHE_MS
CacheFresco(cached, t) == cached.has /\ t - cached.timestamp < CACHE_MS

\* what a request saw of the entry when it looked it up (achou: no entry,
\* a stale one, a fresh one)
NoSnap == [has |-> FALSE, timestamp |-> 0]
Visto(cached) == [has |-> cached.has, timestamp |-> cached.timestamp]
NoCsv == [ok |-> FALSE, rows |-> <<>>]
\* a connection: the request it handles (kind, uf, filtro, the handler's
\* pc and its local now), what happened to it (achou, snap: the lookup;
\* calls, aiCalls: upstream calls made; got, csv, upstream: how the fetch
\* ended) and what was sent (nresp responses; status, body, json, error)
Idle == [kind |-> "none", pc |-> "idle", uf |-> Undefined,
         filtro |-> <<Undefined, Undefined, Undefined>>, now |-> 0, snap |-> NoSnap,
         achou |-> "", calls |-> 0, aiCalls |-> 0, got |-> "", csv |-> NoCsv, upstream |-> "",
         nresp |-> 0, status |-> 0, body |-> <<>>, json |-> "", error |-> <<>>]

\* a catch block that falls through to its second res.status(500).json(...)
RespondeSemReturn(r, st, body, error) ==
    [r EXCEPT !.pc = "done", !.nresp = @ + (IF st = 500 THEN 2 ELSE 1), !.status = st,
              !.body = body, !.error = error,
              !.now = 0, !.snap = IF st = 500 THEN @ ELSE NoSnap]
\* res.status(st).json(...): one more response on the connection; the
\* handler ends and its locals go (what a failed request had seen of the
\* entry stays on record)
Responde(r, st, body, error) ==
    [r EXCEPT !.pc = "done", !.nresp = @ + 1, !.status = st, !.body = body, !.error = error,
              !.now = 0, !.snap = IF st = 500 THEN @ ELSE NoSnap]

\* the catch block of GET /api/imoveis; status is err.response?.status
\* ("" when there is none), message is err.message
ErroLista(r, status, message) ==
    CASE r = "index" -> <<"Erro ao carregar imoveis">>
      [] r = "part_001" -> <<"Erro ao carregar imoveis da Caixa">>
      [] r = "part_000" ->
           IF status # "" THEN <<"Erro ao carregar imoveis da Caixa (HTTP Caixa ", status, ")">>
           ELSE <<"Erro ao carregar imoveis da Caixa: ", message>>

Livre(q) == reqs[q].pc \in {"idle", "done"}
ServerUnchanged == UNCHANGED <<rev, numIn, numOut, fIn, fArgs, fOut>>

InitServer ==
    /\ now = 0
    /\ cacheImoveis = <<>>
    /\ reqs = [q \in Conns |-> Idle]
NoNum == [done |-> FALSE, n |-> Zero]
NoList == [done |-> FALSE, list |-> <<>>]
InitNum == numIn = Undefined /\ numOut = NoNum
InitFiltro == fIn = <<>> /\ fArgs = <<Undefined, Undefined, Undefined>> /\ fOut = NoList

Init == rev \in Revs /\ InitServer /\ InitNum /\ InitFiltro

\* ------------------------------------------------------------------
\* GET /api/imoveis
\* ------------------------------------------------------------------
\* if (!uf) return res.status(400).json(...)
ListaSemUf(q) ==
    /\ Livre(q)
    /\ \E uf \in {u \in UfQuery : ~Truthy(u)} :
         reqs' = [reqs EXCEPT ![q] =
                    Responde([Idle EXCEPT !.kind = "list", !.uf = uf],
                             400, <<>>, <<"Parametro uf e obrigatorio">>)]
    /\ UNCHANGED <<now, cacheImoveis>>
    /\ ServerUnchanged

\* the entry is young enough: the cached list is filtered and sent
ListaCacheHit(q) ==
    /\ Livre(q)
    /\ \E uf \in {u \in UfQuery : Truthy(u)}, f \in FiltroQuery :
         LET cached == CacheGet(cacheImoveis, uf.v)
             r == [Idle EXCEPT !.kind = "list", !.uf = uf, !.filtro = f, !.achou = "fresh"]
         IN /\ CacheFresco(cached, now)
            /\ reqs' = [reqs EXCEPT ![q] =
                          Responde(r, 200, Filtrar(cached.data, f[1], f[2], f[3]), <<>>)]
    /\ UNCHANGED <<now, cacheImoveis>>
    /\ ServerUnchanged

\* no entry, or too old: fetchCsvCaixa(uf) is called and awaited
ListaCacheMiss(q) ==
    /\ Livre(q)
    /\ \E uf \in {u \in UfQuery : Truthy(u)}, f \in FiltroQuery :
         LET cached == CacheGet(cacheImoveis, uf.v)
         IN /\ ~CacheFresco(cached, now)
            /\ reqs' = [reqs EXCEPT ![q] =
                          [Idle EXCEPT !.kind = "list", !.pc = "fetching", !.uf = uf,
                                       !.filtro = f, !.now = now, !.snap = Visto(cached),
                                       !.achou = IF cached.has THEN "stale" ELSE "none",
                                       !.calls = 1]]
    /\ UNCHANGED <<now, cacheImoveis>>
    /\ ServerUnchanged

\* axios.get resolved: parse, store under the timestamp taken before the
\* await, filter, send; a parse error goes to the catch block
FetchResolve(q) ==
    /\ reqs[q].pc = "fetching"
    /\ \E csv \in Csvs :
         LET r == reqs[q]
             parsed == parseImoveisCsv(rev, csv, r.uf.v)
         IN IF parsed.ok
            THEN /\ cacheImoveis' = CacheSet(cacheImoveis, r.uf.v, parsed.data, r.now)
                 /\ reqs' = [reqs EXCEPT ![q] =
                               Responde([r EXCEPT !.got = "csv", !.csv = csv], 200,
                                        Filtrar(parsed.data, r.filtro[1], r.filtro[2], r.filtro[3]),
                                        <<>>)]
            ELSE /\ cacheImoveis' = cacheImoveis
                 /\ reqs' = [reqs EXCEPT ![q] =
                               Responde([r EXCEPT !.got = "csv", !.csv = csv, !.upstream = "parse"], 500, <<>>,
                                        ErroLista(rev, "", "parse"))]
    /\ UNCHANGED now
    /\ ServerUnchanged

\* a failure that is cached as an empty list
FetchRejectGuardaVazio(q) ==
    /\ reqs[q].pc = "fetching"
    /\ \E status \in FetchErrors :
         reqs' = [reqs EXCEPT ![q] =
                    Responde([reqs[q] EXCEPT !.got = "err", !.upstream = IF status = "" THEN "net" ELSE status],
                             500, <<>>, ErroLista(rev, status, "net"))]
    /\ cacheImoveis' = CacheSet(cacheImoveis, reqs[q].uf.v, <<>>, reqs[q].now)
    /\ UNCHANGED now
    /\ ServerUnchanged
\* axios.get rejected: fetchCsvCaixa rethrows, the catch block answers 500
FetchReject(q) ==
    /\ reqs[q].pc = "fetching"
    /\ \E status \in FetchErrors :
         reqs' = [reqs EXCEPT ![q] =
                    Responde([reqs[q] EXCEPT !.got = "err", !.upstream = IF status = "" THEN "net" ELSE status],
                             500, <<>>, ErroLista(rev, status, "net"))]
    /\ UNCHANGED <<now, cacheImoveis>>
    /\ ServerUnchanged

\* ------------------------------------------------------------------
\* POST /api/imoveis/analise
\* ------------------------------------------------------------------
ErroAnalise == <<"Erro ao gerar analise de IA">>
\* req.body: an object, or undefined
Bodies == {Str(<<"o">>), Undefined}
\* what openai.responses.create resolves to: a JSON text (relayed parsed,
\* in the field json of the response), a text that is no JSON, or an
\* object without output[0].content[0].text
Completions == {"json", "text", "shape"}

\* index.js reads imovel.uf of `req.body`; the other revisions of `req.body || {}`
AnaliseStart(q) ==
    /\ Livre(q)
    /\ \E body \in Bodies :
         LET r == [Idle EXCEPT !.kind = "analise"]
         IN reqs' = [reqs EXCEPT ![q] =
                       IF rev = "index" /\ ~body.def
                       THEN Responde(r, 500, <<>>, ErroAnalise)
                       ELSE [r EXCEPT !.pc = "advising", !.aiCalls = 1]]
    /\ UNCHANGED <<now, cacheImoveis>>
    /\ ServerUnchanged

\* an analysis that drops the cached lists
AnaliseResolveLimpaCache(q) ==
    /\ reqs[q].pc = "advising"
    /\ \E c \in Completions :
         reqs' = [reqs EXCEPT ![q] =
                    IF c = "json" THEN Responde([reqs[q] EXCEPT !.json = c], 200, <<>>, <<>>)
                    ELSE Responde(reqs[q], 500, <<>>, ErroAnalise)]
    /\ cacheImoveis' = <<>>
    /\ UNCHANGED now
    /\ ServerUnchanged
AnaliseResolve(q) ==
    /\ reqs[q].pc = "advising"
    /\ \E c \in Completions :
         reqs' = [reqs EXCEPT ![q] =
                    IF c = "json" THEN Responde([reqs[q] EXCEPT !.json = c], 200, <<>>, <<>>)
                    ELSE Responde(reqs[q], 500, <<>>, ErroAnalise)]
    /\ UNCHANGED <<now, cacheImoveis>>
    /\ ServerUnchanged

AnaliseReject(q) ==
    /\ reqs[q].pc = "advising"
    /\ reqs' = [reqs EXCEPT ![q] = Responde(reqs[q], 500, <<>>, ErroAnalise)]
    /\ UNCHANGED <<now, cacheImoveis>>
    /\ ServerUnchanged

\* time passes
Tick ==
    /\ now < MaxTicks * TickMs
    /\ now' = now + TickMs
    /\ UNCHANGED <<cacheImoveis, reqs>>
    /\ ServerUnchanged

Next ==
    \/ \E q \in Conns : ListaSemUf(q)
    \/ \E q \in Conns : ListaCacheHit(q)
    \/ \E q \in Conns : ListaCacheMiss(q)
    \/ \E q \in Conns : FetchResolve(q)
    \/ \E q \in Conns : FetchReject(q)
    \/ \E q \in Conns : AnaliseStart(q)
    \/ \E q \in Conns : AnaliseResolve(q)
    \/ \E q \in Conns : AnaliseReject(q)
    \/ Tick

Spec == Init /\ [][Next]_vars

\* ------------------------------------------------------------------
\* The numeric normalisation on its own: a raw cell, then its number
\* ------------------------------------------------------------------
NumChars == {"0", "5", ".", ",", "R", "$", " ", "a", "-"}
NumInputs == {Undefined}
                \cup {Str(s) : s \in SeqsUpTo(NumChars, MaxStrLen)}
                \cup {Str(<<"1", ".", "2", "3", "4", ",", "5", "6">>),
                      Str(<<"R", "$", " ", "9", "0", "0">>),
                      Str(<<"1", ".", "2", "3", "4", ".", "5", "6", "7", ",", "8">>)}

NormalizaNumero ==
    /\ ~numOut.done
    /\ numOut' = [done |-> TRUE, n |-> celulaParaNumero(rev, numIn)]
    /\ UNCHANGED <<rev, now, cacheImoveis, reqs, numIn, fIn, fArgs, fOut>>

InitNumeros == rev \in Revs /\ InitServer /\ InitFiltro
                   /\ numIn \in NumInputs /\ numOut = NoNum
NextNumeros == NormalizaNumero
SpecNumeros == InitNumeros /\ [][NextNumeros]_vars

\* ------------------------------------------------------------------
\* The query filter on its own: a normalized list, then the filtered list
\* ------------------------------------------------------------------
FRow(m, v) == [UF |-> SP, MODALIDADE |-> m, VALOR |-> v, VALOR_IMOVEL |-> v, AREA_TOTAL |-> <<>>]
FiltroRows == {FRow(<<"L", "e">>, <<"9", "0", "0">>),
               FRow(<<"V", "E">>, <<"1", ".", "0", "0", "0">>),
               FRow(<<>>, <<"a">>),
               FRow(<<"l", "E", "v">>, <<"9", "0", "0", ",", "5">>),
               FRow(<<"e">>, <<"-", "1">>)}
FiltroModalidades == {Undefined, Str(<<>>), Str(<<"e">>), Str(<<"L", "E">>), Str(<<"v">>)}
FiltroValores == {Undefined, Str(<<>>), Str(<<"0">>), Str(<<"9", "0", "0">>),
                  Str(<<"1", "0", "0", "0">>), Str(<<"a">>)}

FiltraLista ==
    /\ ~fOut.done
    /\ \E m \in FiltroModalidades, lo \in FiltroValores, hi \in FiltroValores :
         /\ fArgs' = <<m, lo, hi>>
         /\ fOut' = [done |-> TRUE, list |-> Filtrar(fIn, m, lo, hi)]
    /\ UNCHANGED <<rev, now, cacheImoveis, reqs, numIn, numOut, fIn>>

InitFiltros == rev \in Revs /\ InitServer /\ InitNum
                   /\ fIn \in {parseImoveisCsv(rev, [ok |-> TRUE, rows |-> rs], SP).data :
                                  rs \in SeqsUpTo(FiltroRows, MaxRecs)}
                   /\ fArgs = <<Undefined, Undefined, Undefined>> /\ fOut = NoList
NextFiltros == FiltraLista
SpecFiltros == InitFiltros /\ [][NextFiltros]_vars

\* ------------------------------------------------------------------
\* What the claims speak of
\* ------------------------------------------------------------------
\* a numeric text in Brazilian format, once blanks and currency markers
\* are taken out: an optional sign, digits grouped by '.', and at most one
\* ',' followed by the decimals
SemMoeda(s) == SelectSeq(s, LAMBDA c : c \notin {"R", "$", " "})
Inteira(s) == LET c == SemMoeda(s)
                  k == IndexOf(c, ",")
                  a == IF k = 0 THEN c ELSE SubSeq(c, 1, k - 1)
              IN IF a # <<>> /\ a[1] = "-" THEN Tail(a) ELSE a
Decimais(s) == LET c == SemMoeda(s)
                   k == IndexOf(c, ",")
               IN IF k = 0 THEN <<>> ELSE SubSeq(c, k + 1, Len(c))
Negativo(s) == SemMoeda(s) # <<>> /\ SemMoeda(s)[1] = "-"
FormatoBr(s) ==
    /\ \A i \in 1..Len(Inteira(s)) : IsDigit(Inteira(s)[i]) \/ Inteira(s)[i] = "."
    /\ \E i \in 1..Len(Inteira(s)) : IsDigit(Inteira(s)[i])
    /\ AllDigits(Decimais(s))
    /\ IndexOf(SemMoeda(s), ",") # 0 => Decimais(s) # <<>>
ValorBr(s) ==
    LET mag == DigitsVal(SelectSeq(Inteira(s), IsDigit) \o Decimais(s))
    IN Norm(IF Negativo(s) THEN 0 - mag ELSE mag, Len(Decimais(s)))
\* a text that is no number: a character that belongs to no number
Lixo(s) == \E i \in 1..Len(s) : ~IsDigit(s[i]) /\ s[i] \notin {".", ",", "-", "R", "$", " "}

\* C7: the number made of a raw cell is never NaN; it is 0 for an empty,
\* absent or garbage cell; and for a Brazilian-formatted cell it is the
\* value of its digits, '.' being the thousands separator and ',' the
\* decimal one ("1.234,56" gives 1234.56, "R$ 900" gives 900).
C7_ParseNumero ==
    numOut.done =>
        /\ ~numOut.n.nan
        /\ ~Truthy(numIn) => numOut.n = Zero
        /\ (Truthy(numIn) /\ Lixo(numIn.v)) => numOut.n = Zero
        /\ (Truthy(numIn) /\ FormatoBr(numIn.v)) => numOut.n = ValorBr(numIn.v)

\* the same, of the revisions that have parseNumeroBr
C7_ParseNumeroBr == rev # "index" => C7_ParseNumero

\* two characters that differ at most in case
MesmaLetra(c, d) ==
    \/ c = d
    \/ \E i \in 1..Len(LowerCase) : {c, d} = {LowerCase[i], UpperCase[i]}
\* t occurs in s, case ignored
ContemSemCaixa(s, t) ==
    \E k \in 0..(Len(s) - Len(t)) : \A j \in 1..Len(t) : MesmaLetra(s[k + j], t[j])
\* a query predicate is supplied when the parameter is present and not empty
Fornecido(x) == x.def /\ Len(x.v) > 0
Categoria(i) == IF i.modalidade.def THEN i.modalidade.v ELSE <<>>
Satisfaz(i, args) ==
    /\ Fornecido(args[1]) => ContemSemCaixa(Categoria(i), args[1].v)
    /\ Fornecido(args[2]) => Geq(i.valor, NumberJs(args[2].v))
    /\ Fornecido(args[3]) => Leq(i.valor, NumberJs(args[3].v))
RECURSIVE Subsequencia(_, _)
Subsequencia(list, args) ==
    IF list = <<>> THEN <<>>
    ELSE (IF Satisfaz(Head(list), args) THEN <<Head(list)>> ELSE <<>>)
             \o Subsequencia(Tail(list), args)

\* C4: the filtered list is the subsequence, in the original order, of the
\* records that satisfy every supplied predicate (category contains
\* modalidade, case ignored; price >= minValor; price <= maxValor); with
\* no predicate supplied it is the input list.
C4_Filtro ==
    fOut.done =>
        /\ fOut.list = Subsequencia(fIn, fArgs)
        /\ (\A k \in 1..3 : ~Fornecido(fArgs[k])) => fOut.list = fIn

\* a list of two records or more was filtered by a category and a price
\* bound, and some record went and some stayed
C4_Witness ==
    /\ fOut.done
    /\ Fornecido(fArgs[1]) /\ Fornecido(fArgs[2])
    /\ Len(fIn) >= 2
    /\ Len(fOut.list) >= 1
    /\ Len(fOut.list) < Len(fIn)

\* ------------------------------------------------------------------
\* Claims about the server
\* ------------------------------------------------------------------
Entries(cache) == DOMAIN cache
\* connection q takes a new request in this step
Chega(q) == reqs[q].pc \in {"idle", "done"} /\ reqs'[q] # reqs[q]
ChegaLista(q) == Chega(q) /\ reqs'[q].kind = "list" /\ reqs'[q].uf.def /\ reqs'[q].uf.v # <<>>
\* the entry of region u is younger than the window at time t
Jovem(cache, u, t) == u \in Entries(cache) /\ t - cache[u].timestamp < CACHE_MS

\* C1: a list request that finds an entry younger than the 10-minute
\* window answers with the cached list (filtered by its query), makes no
\* ingestion call, and leaves the entry, data and timestamp, as it was.
C1_CacheHit ==
    [][\A q \in Conns :
         (ChegaLista(q) /\ Jovem(cacheImoveis, reqs'[q].uf.v, now)) =>
            /\ reqs'[q].pc = "done"
            /\ reqs'[q].status = 200
            /\ reqs'[q].body = Subsequencia(cacheImoveis[reqs'[q].uf.v].data, reqs'[q].filtro)
            /\ reqs'[q].calls = 0
            /\ \A p \in Conns \ {q} : reqs'[p] = reqs[p]
            /\ cacheImoveis' = cacheImoveis]_vars

\* an entry taken at time 0 was served from the cache half a window later
C1_Witness ==
    \E q \in Conns :
        /\ reqs[q].kind = "list" /\ reqs[q].pc = "done" /\ reqs[q].achou = "fresh"
        /\ reqs[q].body # <<>>
        /\ now = TickMs
        /\ cacheImoveis[reqs[q].uf.v].timestamp = 0

\* C2: a list request that finds no entry, or one as old as the window or
\* older, makes exactly one ingestion call; when the call succeeds the
\* answer is the newly fetched list and the entry of the region is
\* replaced whole by that list under the timestamp of the request.
C2_CacheMiss ==
    [][\A q \in Conns :
         /\ (ChegaLista(q) /\ ~Jovem(cacheImoveis, reqs'[q].uf.v, now)) =>
               /\ reqs'[q].pc = "fetching"
               /\ reqs'[q].calls = 1
               /\ reqs'[q].now = now
               /\ cacheImoveis' = cacheImoveis
         /\ (reqs[q].pc = "fetching" /\ reqs'[q] # reqs[q]) =>
               /\ reqs'[q].pc = "done"
               /\ reqs'[q].calls = 1
         /\ (reqs[q].pc = "fetching" /\ reqs'[q].status = 200) =>
               LET u == reqs[q].uf.v
                   novos == parseImoveisCsv(rev, reqs'[q].csv, u).data
               IN /\ reqs'[q].got = "csv"
                  /\ reqs'[q].body = Subsequencia(novos, reqs[q].filtro)
                  /\ Entries(cacheImoveis') = Entries(cacheImoveis) \cup {u}
                  /\ cacheImoveis'[u] = [data |-> novos, timestamp |-> reqs[q].now]
                  /\ \A k \in Entries(cacheImoveis) \ {u} : cacheImoveis'[k] = cacheImoveis[k]]_vars

\* a request found an entry exactly as old as the window, fetched, and the
\* entry now carries the new list under the new timestamp
C2_Witness ==
    \E q \in Conns :
        /\ reqs[q].kind = "list" /\ reqs[q].pc = "done" /\ reqs[q].status = 200
        /\ reqs[q].achou = "stale" /\ reqs[q].calls = 1
        /\ reqs[q].body # <<>>
        /\ cacheImoveis[reqs[q].uf.v].timestamp = CACHE_MS
        /\ cacheImoveis[reqs[q].uf.v].data = parseImoveisCsv(rev, reqs[q].csv, reqs[q].uf.v).data

\* a list request that failed while refreshing region u
Falhou(r, u) == r.kind = "list" /\ r.pc = "done" /\ r.status = 500 /\ r.uf = Str(u)

\* C3: when the fetch or the parse fails, the request answers with the
\* error, the cache map stays exactly as it was, and a request for the
\* region that arrives while the entry is still the one the failed request
\* saw fetches again instead of being served from the cache.
C3_FetchFailure ==
    [][\A q \in Conns :
         /\ (reqs[q].pc = "fetching" /\ reqs'[q].pc = "done" /\ reqs'[q].status # 200) =>
               /\ reqs'[q].status = 500
               /\ reqs'[q].error # <<>>
               /\ reqs'[q].body = <<>>
               /\ cacheImoveis' = cacheImoveis
         /\ \A p \in Conns :
               (ChegaLista(q) /\ Falhou(reqs[p], reqs'[q].uf.v)
                   /\ Visto(CacheGet(cacheImoveis, reqs'[q].uf.v)) = reqs[p].snap) =>
                  /\ reqs'[q].pc = "fetching"
                  /\ reqs'[q].calls = 1]_vars

\* a refresh of a stale entry failed with the upstream status, the stale
\* entry is still in the map, and the next request for the region is
\* fetching again
C3_Witness ==
    \E q, p \in Conns :
        /\ q # p
        /\ Falhou(reqs[p], reqs[p].uf.v) /\ reqs[p].achou = "stale" /\ reqs[p].upstream = "503"
        /\ reqs[q].pc = "fetching" /\ reqs[q].uf = reqs[p].uf /\ reqs[q].achou = "stale"
        /\ reqs[q].snap = reqs[p].snap
        /\ Visto(CacheGet(cacheImoveis, reqs[p].uf.v)) = reqs[p].snap

\* the HTTP statuses the upstream fails with
EhStatusHttp(x) == x \in FetchErrors \ {""}

\* C5: a list request whose upstream fetch failed with an HTTP status
\* answers 500 with an error message that contains that status.
C5_UpstreamStatus ==
    \A q \in Conns :
        (reqs[q].kind = "list" /\ reqs[q].pc = "done" /\ EhStatusHttp(reqs[q].upstream)) =>
            /\ reqs[q].status = 500
            /\ \E i \in 1..Len(reqs[q].error) : reqs[q].error[i] = reqs[q].upstream

\* the same, of the revision whose catch block reads err.response?.status
C5_UpstreamStatusPart000 == rev = "part_000" => C5_UpstreamStatus

\* C6: a request gets one response and no more, a full result (200, no
\* error) or an error body (400 or 500, no data); no step of it is tried
\* twice; and the connection takes the next request after any outcome.
C6_OneResponse ==
    \A q \in Conns :
        LET r == reqs[q]
        IN /\ r.nresp <= 1
           /\ (r.pc = "done") = (r.nresp = 1)
           /\ r.calls <= 1 /\ r.aiCalls <= 1
           /\ r.pc = "done" =>
                 \/ /\ r.status = 200 /\ r.error = <<>>
                    /\ r.kind = "analise" => r.json # ""
                    /\ (r.kind = "list" /\ r.got = "csv") =>
                          r.body = Subsequencia(parseImoveisCsv(rev, r.csv, r.uf.v).data, r.filtro)
                 \/ /\ r.status \in {400, 500} /\ r.error # <<>>
                    /\ r.body = <<>> /\ r.json = ""
           /\ r.pc = "done" => ENABLED AnaliseStart(q)

\* one connection got an error for a failed fetch, the other a full list
C6_Witness ==
    \E q, p \in Conns :
        /\ reqs[q].pc = "done" /\ reqs[q].status = 500 /\ reqs[q].got = "err"
        /\ reqs[p].pc = "done" /\ reqs[p].status = 200 /\ reqs[p].body # <<>>

\* C8: a step of an analysis request, whatever its outcome, leaves the
\* cache map as it was and makes no ingestion call.
C8_AnaliseFrame ==
    [][\A q \in Conns :
         (reqs'[q] # reqs[q] /\ reqs'[q].kind = "analise") =>
            /\ cacheImoveis' = cacheImoveis
            /\ reqs'[q].calls = 0
            /\ \A p \in Conns \ {q} : reqs'[p] = reqs[p]]_vars

\* an analysis was answered while the map held an entry and a list request
\* was waiting for its fetch
C8_Witness ==
    \E q, p \in Conns :
        /\ reqs[q].kind = "analise" /\ reqs[q].pc = "done" /\ reqs[q].status = 200
        /\ reqs[p].pc = "fetching"
        /\ Entries(cacheImoveis) # {}

\* C9: every record served by a list request carries the uppercase region
\* code of the request.
C9_RegionUppercase ==
    \A q \in Conns :
        (reqs[q].kind = "list" /\ reqs[q].pc = "done" /\ reqs[q].status = 200) =>
            \A i \in 1..Len(reqs[q].body) :
                reqs[q].body[i].uf = Str(toUpperCase(reqs[q].uf.v))

\* C10: the timestamp of a region's entry never decreases.
C10_TimestampMonotone ==
    [][\A u \in Entries(cacheImoveis) :
         /\ u \in Entries(cacheImoveis')
         /\ cacheImoveis'[u].timestamp >= cacheImoveis[u].timestamp]_vars

====
